---- MODULE Spec2Model ----
(***************************************************************************)
(* Model of DateParser (src/features/suggestion-provider/DateParser.ts):   *)
(* the process-wide holiday cache, the holiday lookup, the date resolver   *)
(* and the suggestion rule engine.                                         *)
(*                                                                         *)
(* Text is a sequence of one-character strings, so that trim, lowercase,   *)
(* prefix and substring tests are computed as the code computes them.      *)
(* A Date is the integer year * 1000 + day-of-year, which orders dates as  *)
(* getTime() does.  Locales are plain strings; "" is the empty locale.     *)
(***************************************************************************)
EXTENDS Integers, Sequences, FiniteSets, TLC

VARIABLES holidaysInstance, holidayCache, currentLocale, call

vars == <<holidaysInstance, holidayCache, currentLocale, call>>

(***************************************************************************)
(* Bounds of the model.                                                    *)
(***************************************************************************)
\* "now" ranges over a few days of currentYear .. currentYear + MaxNowYearOffset
MaxNowYearOffset == 2

\* static currentYear = new Date().getFullYear(), fixed when the class loads
currentYear == 2026

\* static currentLocale = 'US' and the fallback literal 'US' of initHolidays
DefaultLocale == "US"

\* holidaysInstance === null
NullInstance == "null"

Locales == {"", "US", "GB"}

(***************************************************************************)
(* String primitives (JavaScript semantics on the characters used here).   *)
(***************************************************************************)
UpperChars == <<"A","B","C","D","E","F","G","H","I","J","K","L","M","N","O","P","Q","R","S","T","U","V","W","X","Y","Z">>

LowerChars == <<"a","b","c","d","e","f","g","h","i","j","k","l","m","n","o","p","q","r","s","t","u","v","w","x","y","z">>

Digits == <<"0","1","2","3","4","5","6","7","8","9">>

IsDigit(c) == \E i \in 1..10 : Digits[i] = c

\* the numeric value of a digit character
DigitVal(c) == (CHOOSE i \in 1..10 : Digits[i] = c) - 1

IsSpace(c) == c = " "

lowerChar(c) ==
    IF \E i \in 1..26 : UpperChars[i] = c
    THEN LowerChars[CHOOSE i \in 1..26 : UpperChars[i] = c]
    ELSE c

upperChar(c) ==
    IF \E i \in 1..26 : LowerChars[i] = c
    THEN UpperChars[CHOOSE i \in 1..26 : LowerChars[i] = c]
    ELSE c

\* String.prototype.toLowerCase
toLowerCase(s) == [i \in 1..Len(s) |-> lowerChar(s[i])]

\* String.prototype.substring(from) with a 0-based index
substringFrom(s, from) == IF from >= Len(s) THEN <<>> ELSE SubSeq(s, from + 1, Len(s))

\* String.prototype.substring(0, to)
substringTo(s, to) == IF to <= 0 THEN <<>> ELSE SubSeq(s, 1, IF to > Len(s) THEN Len(s) ELSE to)

\* String.prototype.trimStart
RECURSIVE trimStart(_)
trimStart(s) ==
    IF s # <<>> /\ IsSpace(Head(s)) THEN trimStart(Tail(s)) ELSE s

RECURSIVE trimEnd(_)
trimEnd(s) ==
    IF s # <<>> /\ IsSpace(s[Len(s)]) THEN trimEnd(SubSeq(s, 1, Len(s) - 1)) ELSE s

\* String.prototype.trim
trim(s) == trimEnd(trimStart(s))

\* String.prototype.startsWith
startsWith(s, p) == Len(p) <= Len(s) /\ SubSeq(s, 1, Len(p)) = p

\* String.prototype.includes
includes(s, sub) ==
    \E i \in 0..(Len(s) - Len(sub)) : SubSeq(s, i + 1, i + Len(sub)) = sub

\* DateParser.capitalizeFirstLetter
capitalizeFirstLetter(text) ==
    IF text = <<>> THEN text ELSE <<upperChar(text[1])>> \o Tail(text)

\* /^\d+$/ on s (also used for the digit run of other patterns)
AllDigits(s) == Len(s) > 0 /\ \A i \in 1..Len(s) : IsDigit(s[i])

\* /^\d{4}$/.test(s)
IsFourDigits(s) == Len(s) = 4 /\ AllDigits(s)

\* length of the longest run of characters satisfying a class at the start of s
RECURSIVE DigitRun(_)
DigitRun(s) == IF s # <<>> /\ IsDigit(Head(s)) THEN 1 + DigitRun(Tail(s)) ELSE 0

RECURSIVE SpaceRun(_)
SpaceRun(s) == IF s # <<>> /\ IsSpace(Head(s)) THEN 1 + SpaceRun(Tail(s)) ELSE 0

\* Number(s) for a string of digits
RECURSIVE Number(_)
Number(s) == IF s = <<>> THEN 0 ELSE Number(SubSeq(s, 1, Len(s) - 1)) * 10 + DigitVal(s[Len(s)])

\* s.split(/\s+/) : the tokens between maximal runs of white space; an empty
\* or edge token is kept as "" exactly as JavaScript keeps it
RECURSIVE splitWs(_, _)
splitWs(s, cur) ==
    IF s = <<>> THEN <<cur>>
    ELSE IF IsSpace(Head(s))
         THEN <<cur>> \o splitWs(substringFrom(s, SpaceRun(s)), <<>>)
         ELSE splitWs(Tail(s), Append(cur, Head(s)))

split(s) == splitWs(s, <<>>)

\* s.split(' ')[0] : the text before the first space
RECURSIVE firstWord(_)
firstWord(s) ==
    IF s = <<>> \/ IsSpace(Head(s)) THEN <<>> ELSE <<Head(s)>> \o firstWord(Tail(s))


(***************************************************************************)
(* Optional values: null is the empty sequence, a value v is <<v>>.        *)
(***************************************************************************)
Null == <<>>

Some(v) == <<v>>

(***************************************************************************)
(* Constants imported from '@/constants'.                                  *)
(***************************************************************************)
DAYS_OF_THE_WEEK ==
    << <<"M","o","n","d","a","y">>, <<"T","u","e","s","d","a","y">>, <<"W","e","d","n","e","s","d","a","y">>, <<"T","h","u","r","s","d","a","y">>, <<"F","r","i","d","a","y">>, <<"S","a","t","u","r","d","a","y">>, <<"S","u","n","d","a","y">> >>

MONTHS_OF_THE_YEAR ==
    << <<"J","a","n","u","a","r","y">>, <<"F","e","b","r","u","a","r","y">>, <<"M","a","r","c","h">>, <<"A","p","r","i","l">>, <<"M","a","y">>, <<"J","u","n","e">>, <<"J","u","l","y">>,
       <<"A","u","g","u","s","t">>, <<"S","e","p","t","e","m","b","e","r">>, <<"O","c","t","o","b","e","r">>, <<"N","o","v","e","m","b","e","r">>, <<"D","e","c","e","m","b","e","r">> >>

TIME_OF_DAY_PHRASES == << <<"M","o","r","n","i","n","g">>, <<"N","o","o","n">>, <<"M","i","d","d","a","y">>, <<"T","o","n","i","g","h","t">> >>

STR_WEEK == <<"w","e","e","k">>

STR_MONTH == <<"m","o","n","t","h">>

STR_YEAR == <<"y","e","a","r">>

STR_TODAY == <<"t","o","d","a","y">>

STR_TOMORROW == <<"t","o","m","o","r","r","o","w">>

STR_YESTERDAY == <<"y","e","s","t","e","r","d","a","y">>

\* Object.entries(HOLIDAY_ALIASES): (alias, official key) pairs
HOLIDAY_ALIASES == << [alias |-> <<"X","m","a","s">>, official |-> <<"c","h","r","i","s","t","m","a","s"," ","d","a","y">>] >>

(***************************************************************************)
(* The holiday data source (date-holidays): records per locale and year.   *)
(* A record's date string is modelled by its <<year, day-of-year>> parts.  *)
(***************************************************************************)
getHolidays(locale, year) ==
    IF locale = "US"
    THEN << [name |-> <<"J","u","n","e","t","e","e","n","t","h">>,    date |-> <<year, 170>>],
            [name |-> <<"M","e","m","o","r","i","a","l"," ","D","a","y">>,  date |-> <<year, 145>>],
            [name |-> <<"C","h","r","i","s","t","m","a","s"," ","D","a","y">>, date |-> <<year, 359>>] >>
    ELSE IF locale = "GB"
    THEN << [name |-> <<"G","o","o","d"," ","F","r","i","d","a","y">>,   date |-> <<year, 100>>],
            [name |-> <<"C","h","r","i","s","t","m","a","s"," ","D","a","y">>, date |-> <<year, 359>>],
            [name |-> <<"B","o","x","i","n","g"," ","D","a","y">>,    date |-> <<year, 360>>] >>
    ELSE << >>

\* new Date(holiday.date)
NewDate(d) == d[1] * 1000 + d[2]

\* new Date(Number(trimmed), 0, 1): the Date constructor reads a year of
\* 0..99 as 1900 + year
JanuaryFirst(year) ==
    IF year >= 0 /\ year <= 99 THEN (1900 + year) * 1000 + 1 ELSE year * 1000 + 1

\* the ways a load of the holiday source can fail: constructing the source,
\* or fetching the first or the second year
FailModes == {"ok", "ctor", "fetch1", "fetch2"}

\* index of the year whose fetch throws (0: none)
FailIndex(f) == IF f = "fetch1" THEN 1 ELSE IF f = "fetch2" THEN 2 ELSE 0

(***************************************************************************)
(* holidayCache: a Map, modelled as the sequence of its entries in         *)
(* insertion order, each [key, name, dates].                               *)
(***************************************************************************)
mapHas(cache, k) == \E i \in 1..Len(cache) : cache[i].key = k

mapIndex(cache, k) == CHOOSE i \in 1..Len(cache) : cache[i].key = k

mapGet(cache, k) == cache[mapIndex(cache, k)]

\* Map.set: an existing key keeps its position, a new key goes last
mapSet(cache, k, name, dates) ==
    IF mapHas(cache, k)
    THEN [cache EXCEPT ![mapIndex(cache, k)] = [key |-> k, name |-> name, dates |-> dates]]
    ELSE Append(cache, [key |-> k, name |-> name, dates |-> dates])

\* one registration of addHolidayToCache: set when absent, push otherwise
registerDate(cache, k, name, date) ==
    IF ~mapHas(cache, k)
    THEN mapSet(cache, k, name, <<date>>)
    ELSE [cache EXCEPT ![mapIndex(cache, k)].dates = Append(@, date)]

addHolidayToCache(cache, holiday) ==
    LET name == holiday.name
        lowerName == toLowerCase(name)
        date == NewDate(holiday.date)
        c1 == registerDate(cache, lowerName, name, date)
        shortName == firstWord(lowerName)
    IN  IF Len(shortName) > 3 THEN registerDate(c1, shortName, name, date) ELSE c1

\* holidays.forEach(this.addHolidayToCache.bind(this))
RECURSIVE addAll(_, _)
addAll(cache, holidays) ==
    IF holidays = <<>> THEN cache
    ELSE addAll(addHolidayToCache(cache, Head(holidays)), Tail(holidays))

\* processHolidaysForYears: the years in order; getHolidays of year number
\* failAt throws, leaving what the earlier years added
RECURSIVE processHolidaysForYears(_, _, _, _, _)
processHolidaysForYears(cache, instance, years, i, failAt) ==
    IF instance = NullInstance \/ i > Len(years) THEN [cache |-> cache, threw |-> FALSE]
    ELSE IF i = failAt THEN [cache |-> cache, threw |-> TRUE]
    ELSE processHolidaysForYears(addAll(cache, getHolidays(instance, years[i])),
                                 instance, years, i + 1, failAt)

RECURSIVE addHolidayAliasesFrom(_, _)
addHolidayAliasesFrom(cache, aliases) ==
    IF aliases = <<>> THEN cache
    ELSE LET a == Head(aliases)
             next == IF mapHas(cache, a.official)
                     THEN mapSet(cache, toLowerCase(a.alias), a.alias,
                                 mapGet(cache, a.official).dates)
                     ELSE cache
         IN  addHolidayAliasesFrom(next, Tail(aliases))

addHolidayAliases(cache) == addHolidayAliasesFrom(cache, HOLIDAY_ALIASES)

(***************************************************************************)
(* The static state as one record, and the operations on it.  An operation *)
(* returns the state it leaves and whether it threw.                       *)
(***************************************************************************)
State(inst, cache, loc) ==
    [holidaysInstance |-> inst, holidayCache |-> cache, currentLocale |-> loc]

Cleared == State(NullInstance, <<>>, "")

refreshHolidayCache_noClear(st, f) ==
    LET p == processHolidaysForYears(st.holidayCache, st.holidaysInstance,
                                     <<currentYear, currentYear + 1>>, 1, FailIndex(f))
    IN  IF p.threw
        THEN [st |-> [st EXCEPT !.holidayCache = p.cache], threw |-> TRUE]
        ELSE [st |-> [st EXCEPT !.holidayCache = addHolidayAliases(p.cache)], threw |-> FALSE]

\* refreshHolidayCache, entered with holidaysInstance assigned by its caller
\* (the re-initialisation guard of its first lines is then not taken)
refreshHolidayCache(st, f) ==
    LET p == processHolidaysForYears(<<>>, st.holidaysInstance,
                                     <<currentYear, currentYear + 1>>, 1, FailIndex(f))
    IN  IF p.threw
        THEN [st |-> [st EXCEPT !.holidayCache = p.cache], threw |-> TRUE]
        ELSE [st |-> [st EXCEPT !.holidayCache = addHolidayAliases(p.cache)], threw |-> FALSE]

loadLocale_localeBeforeConstruct(st, locale, f) ==
    IF f = "ctor" THEN [st |-> [st EXCEPT !.currentLocale = locale], threw |-> TRUE]
    ELSE refreshHolidayCache(
             [st EXCEPT !.holidaysInstance = locale, !.currentLocale = locale], f)

\* new Holidays(locale); currentLocale = locale; refreshHolidayCache()
loadLocale(st, locale, f) ==
    IF f = "ctor" THEN [st |-> st, threw |-> TRUE]
    ELSE refreshHolidayCache(
             [st EXCEPT !.holidaysInstance = locale, !.currentLocale = locale], f)

\* initHolidays(locale): f is how the load of locale fails, fUS how the
\* fallback load of 'US' fails
initHolidays(st, locale, f, fUS) ==
    IF locale = "" THEN [st |-> Cleared, threw |-> FALSE]
    ELSE LET try == loadLocale(st, locale, f)
         IN  IF ~try.threw THEN try
             ELSE IF locale # DefaultLocale
                  THEN loadLocale(try.st, DefaultLocale, fUS)
                  ELSE [st |-> try.st, threw |-> FALSE]

setLocale_alwaysInit(st, locale, f, fUS) ==
    IF locale = "" THEN [st |-> Cleared, threw |-> FALSE]
    ELSE initHolidays(st, locale, f, fUS)

setLocale(st, locale, f, fUS) ==
    IF locale = "" THEN [st |-> Cleared, threw |-> FALSE]
    ELSE IF st.currentLocale # locale THEN initHolidays(st, locale, f, fUS)
    ELSE [st |-> st, threw |-> FALSE]

getCurrentLocale(st) == st.currentLocale


(***************************************************************************)
(* Holiday lookup and date resolution.                                     *)
(***************************************************************************)
\* dates.slice().sort((a, b) => a.getTime() - b.getTime())
RECURSIVE insertSorted(_, _)
insertSorted(sorted, d) ==
    IF sorted = <<>> THEN <<d>>
    ELSE IF d < Head(sorted) THEN <<d>> \o sorted
    ELSE <<Head(sorted)>> \o insertSorted(Tail(sorted), d)

RECURSIVE sortAscending(_)
sortAscending(dates) ==
    IF dates = <<>> THEN <<>>
    ELSE insertSorted(sortAscending(SubSeq(dates, 1, Len(dates) - 1)), dates[Len(dates)])

getNextUpcomingDate_earliestFallback(dates, now) ==
    LET sorted == sortAscending(dates)
    IN  IF \E i \in 1..Len(sorted) : sorted[i] >= now
        THEN Some(sorted[CHOOSE i \in 1..Len(sorted) :
                           /\ sorted[i] >= now
                           /\ \A j \in 1..(i - 1) : ~(sorted[j] >= now)])
        ELSE IF Len(sorted) > 0 THEN Some(sorted[1]) ELSE Null

\* getNextUpcomingDate(dates) at time now
getNextUpcomingDate(dates, now) ==
    LET sorted == sortAscending(dates)
    IN  IF \E i \in 1..Len(sorted) : sorted[i] >= now
        THEN Some(sorted[CHOOSE i \in 1..Len(sorted) :
                           /\ sorted[i] >= now
                           /\ \A j \in 1..(i - 1) : ~(sorted[j] >= now)])
        ELSE IF Len(sorted) > 0 THEN Some(sorted[Len(sorted)]) ELSE Null

\* the partial match of checkForHoliday: text contains the key or the key contains the text
partialMatch(cleanedText, key) == includes(cleanedText, key) \/ includes(key, cleanedText)

checkForHoliday(st, text, now) ==
    IF st.holidaysInstance = NullInstance \/ st.currentLocale = "" THEN Null
    ELSE LET cache == st.holidayCache
             cleanedText == trim(toLowerCase(text))
         IN  IF mapHas(cache, cleanedText)
             THEN getNextUpcomingDate(mapGet(cache, cleanedText).dates, now)
             ELSE IF \E i \in 1..Len(cache) : partialMatch(cleanedText, cache[i].key)
             THEN LET first == CHOOSE i \in 1..Len(cache) :
                                  /\ partialMatch(cleanedText, cache[i].key)
                                  /\ \A j \in 1..(i - 1) : ~partialMatch(cleanedText, cache[j].key)
                  IN  getNextUpcomingDate(cache[first].dates, now)
             ELSE Null

\* /^in \d+$/.test(s)
IsInDigits(s) == startsWith(s, <<"i","n"," ">>) /\ AllDigits(substringFrom(s, 3))

enhanceText(text) ==
    IF text = <<>> THEN text
    ELSE LET trimmedText == trim(text)
         IN  IF IsFourDigits(trimmedText) THEN trimmedText
             ELSE LET modifiedText ==
                          IF trimmedText # <<>> /\ IsDigit(trimmedText[1])
                          THEN <<"i","n"," ">> \o trimmedText
                          ELSE trimmedText
                  IN  IF /\ trimmedText # <<>>
                         /\ IsDigit(trimmedText[Len(trimmedText)])
                         /\ (IsInDigits(modifiedText) \/ AllDigits(trimmedText))
                      THEN modifiedText \o <<" ","d","a","y","s">>
                      ELSE modifiedText

\* chrono.parseDate(text): the external parser finds no date in blank text;
\* for any other text its answer is an input of the model
chronoParseDate(text, answer) == IF trim(text) = <<>> THEN Null ELSE answer

handleParsing(st, text, now) ==
    IF text = <<>> THEN [holidayDate |-> Null, modifiedText |-> <<>>, holidayChecked |-> FALSE]
    ELSE LET holidayDate == checkForHoliday(st, text, now)
         IN  [holidayDate |-> holidayDate,
              modifiedText |-> IF holidayDate # Null THEN text ELSE enhanceText(text),
              holidayChecked |-> TRUE]

\* parseDate(text) at time now; chronoRes is what chrono.parseDate answers if
\* it is asked.  chronoArg is the text it was asked about (Null: not asked).
parseDate(st, text, now, chronoRes) ==
    LET trimmed == trim(text)
    IN  IF IsFourDigits(trimmed)
        THEN [result |-> Some(JanuaryFirst(Number(trimmed))),
              holidayChecked |-> FALSE, chronoArg |-> Null]
        ELSE LET h == handleParsing(st, text, now)
             IN  IF h.holidayDate # Null
                 THEN [result |-> h.holidayDate,
                       holidayChecked |-> h.holidayChecked, chronoArg |-> Null]
                 ELSE [result |-> chronoParseDate(h.modifiedText, chronoRes),
                       holidayChecked |-> h.holidayChecked,
                       chronoArg |-> Some(h.modifiedText)]


(***************************************************************************)
(* The suggestion generators.  A rule is named by its position in the      *)
(* declaration of suggestionGenerators; pattern(r, ...) is its matcher on  *)
(* the trimmed lowercased input, generate(r, ...) its generator on the     *)
(* trimmed input in its original case.                                     *)
(***************************************************************************)
Map(f(_), s) == [i \in 1..Len(s) |-> f(s[i])]

\* the pairs of a nested forEach over a and b, outer loop first
Product(a, b) ==
    [k \in 1..(Len(a) * Len(b)) |-> <<a[((k - 1) \div Len(b)) + 1], b[((k - 1) % Len(b)) + 1]>>]

arraySome(test(_), s) == \E i \in 1..Len(s) : test(s[i])

\* String.prototype.indexOf for a substring that occurs
indexOf(s, sub) ==
    (CHOOSE i \in 0..(Len(s) - Len(sub)) :
        /\ SubSeq(s, i + 1, i + Len(sub)) = sub
        /\ \A j \in 0..(i - 1) : SubSeq(s, j + 1, j + Len(sub)) # sub)

\* Array.prototype.slice(0, n)
sliceTo(s, n) == IF Len(s) <= n THEN s ELSE SubSeq(s, 1, n)

Qualifiers == << <<"t","h","i","s">>, <<"n","e","x","t">>, <<"l","a","s","t">> >>

RelativeDays == << <<"t","o","d","a","y">>, <<"t","o","m","o","r","r","o","w">>, <<"y","e","s","t","e","r","d","a","y">> >>

MonthAbbreviations ==
    << <<"j","a","n">>, <<"f","e","b">>, <<"m","a","r">>, <<"a","p","r">>, <<"m","a","y">>, <<"j","u","n">>,
       <<"j","u","l">>, <<"a","u","g">>, <<"s","e","p">>, <<"o","c","t">>, <<"n","o","v">>, <<"d","e","c">> >>

\* the match of /^(?:in\s*)?(\d+)/i : Null, or <<[all, group]>>
matchNumber(lower) ==
    LET afterIn == substringFrom(lower, 2)
        ws == SpaceRun(afterIn)
        n == DigitRun(substringFrom(afterIn, ws))
    IN  IF startsWith(lower, <<"i","n">>) /\ n > 0
        THEN Some([all |-> SubSeq(lower, 1, 2 + ws + n),
                   group |-> SubSeq(lower, 3 + ws, 2 + ws + n)])
        ELSE IF DigitRun(lower) > 0
        THEN Some([all |-> SubSeq(lower, 1, DigitRun(lower)),
                   group |-> SubSeq(lower, 1, DigitRun(lower))])
        ELSE Null

\* the match of /^(this|next|last)\s?/i : Null, or <<[all, group]>> with group the keyword
matchQualifier(lower) ==
    IF arraySome(LAMBDA q : startsWith(lower, q), Qualifiers)
    THEN LET q == CHOOSE q \in {Qualifiers[i] : i \in 1..Len(Qualifiers)} : startsWith(lower, q)
         IN  Some([all |-> IF Len(lower) > Len(q) /\ IsSpace(lower[Len(q) + 1])
                           THEN SubSeq(lower, 1, Len(q) + 1) ELSE q,
                   group |-> q])
    ELSE Null

generateNumber(fullInput, matchDetails) ==
    LET trimmed == trim(fullInput)
    IN  IF IsFourDigits(trimmed) THEN <<>>
        ELSE IF matchDetails = Null THEN <<>>
        ELSE LET num == matchDetails[1].group
                 matchedString == matchDetails[1].all
                 prefix == IF startsWith(toLowerCase(matchedString), <<"i","n">>)
                           THEN substringTo(matchedString,
                                            indexOf(toLowerCase(matchedString), num))
                           ELSE <<"i","n"," ">>
                 units == << <<" ","d","a","y","s">>, <<" ","w","e","e","k","s">>, <<" ","m","o","n","t","h","s">>, <<" ","h","o","u","r","s">>, <<" ","m","i","n","u","t","e","s">>, <<" ","y","e","a","r","s">> >>
             IN  Map(LAMBDA u : capitalizeFirstLetter(prefix \o num \o u), units)

generateQualifier(fullInput, matchDetails) ==
    IF matchDetails = Null \/ matchDetails[1].group = <<>> THEN <<>>
    ELSE LET prefixKeyword == toLowerCase(matchDetails[1].group)
             remainder == trimStart(toLowerCase(
                              substringFrom(fullInput, Len(matchDetails[1].all))))
             timeUnits == <<STR_WEEK, STR_MONTH, STR_YEAR>> \o DAYS_OF_THE_WEEK
             units == IF remainder # <<>>
                      THEN SelectSeq(timeUnits, LAMBDA u : startsWith(toLowerCase(u), remainder))
                      ELSE timeUnits
         IN  Map(LAMBDA u : capitalizeFirstLetter(prefixKeyword \o <<" ">> \o u), units)

patternWeekday(input) ==
    LET lower == toLowerCase(trim(input))
    IN  Len(lower) > 0 /\ arraySome(LAMBDA d : startsWith(toLowerCase(d), lower), DAYS_OF_THE_WEEK)

generateWeekday(input) ==
    LET lower == toLowerCase(trim(input))
    IN  SelectSeq(DAYS_OF_THE_WEEK, LAMBDA d : startsWith(toLowerCase(d), lower))

patternWeekdayQualifier(input) ==
    LET parts == split(toLowerCase(trim(input)))
    IN  /\ Len(parts) >= 2
        /\ arraySome(LAMBDA d : startsWith(toLowerCase(d), parts[1]), DAYS_OF_THE_WEEK)
        /\ arraySome(LAMBDA q : startsWith(q, parts[2]), Qualifiers)

generateWeekdayQualifier(input) ==
    LET parts == split(toLowerCase(trim(input)))
        pairs == SelectSeq(Product(DAYS_OF_THE_WEEK, Qualifiers),
                           LAMBDA p : /\ startsWith(toLowerCase(p[1]), parts[1])
                                      /\ startsWith(p[2], parts[2])
                                      /\ startsWith(toLowerCase(p[1] \o <<" ">> \o p[2] \o <<" ","w","e","e","k">>),
                                                    toLowerCase(trim(input))))
    IN  Map(LAMBDA p : p[1] \o <<" ">> \o p[2] \o <<" ","w","e","e","k">>, pairs)

\* /^(jan|feb|...|dec)/i
patternMonth(lower) == arraySome(LAMBDA m : startsWith(lower, m), MonthAbbreviations)

generateMonth(input) ==
    SelectSeq(MONTHS_OF_THE_YEAR, LAMBDA m : startsWith(toLowerCase(m), toLowerCase(input)))

\* /^(to|ye|tom)/i
patternRelativeDay(lower) ==
    startsWith(lower, <<"t","o">>) \/ startsWith(lower, <<"y","e">>) \/ startsWith(lower, <<"t","o","m">>)

generateRelativeDay(input) ==
    Map(capitalizeFirstLetter,
        SelectSeq(<<STR_TODAY, STR_TOMORROW, STR_YESTERDAY>>,
                  LAMBDA opt : startsWith(opt, toLowerCase(input))))

patternDayTime(input) ==
    LET parts == split(toLowerCase(trim(input)))
    IN  /\ Len(parts) = 2
        /\ arraySome(LAMBDA d : d = parts[1], RelativeDays)
        /\ Len(parts[2]) > 0

generateDayTime(input) ==
    LET parts == split(trim(input))
        day == parts[1]
        after == toLowerCase(parts[2])
    IN  Map(LAMBDA p : capitalizeFirstLetter(day) \o <<" ">> \o toLowerCase(p),
            SelectSeq(TIME_OF_DAY_PHRASES, LAMBDA p : startsWith(toLowerCase(p), after)))

patternTimeOfDay(input) ==
    LET lower == toLowerCase(trim(input))
    IN  IF Len(lower) < 1 THEN FALSE
        ELSE arraySome(LAMBDA p : startsWith(toLowerCase(p), lower), TIME_OF_DAY_PHRASES)

generateTimeOfDay(input) ==
    LET lower == toLowerCase(trim(input))
    IN  SelectSeq(TIME_OF_DAY_PHRASES, LAMBDA p : startsWith(toLowerCase(p), lower))

IsThisOrNext(w) == w = <<"t","h","i","s">> \/ w = <<"n","e","x","t">>

patternWeekend(input) ==
    LET parts == split(toLowerCase(trim(input)))
    IN  IF Len(parts) = 1 THEN startsWith(<<"w","e","e","k","e","n","d">>, parts[1]) /\ Len(parts[1]) > 0
        ELSE IF Len(parts) = 2 /\ IsThisOrNext(parts[1]) THEN startsWith(<<"w","e","e","k","e","n","d">>, parts[2])
        ELSE FALSE

generateWeekend(input) ==
    LET parts == split(toLowerCase(trim(input)))
    IN  IF Len(parts) = 2 /\ IsThisOrNext(parts[1])
        THEN << capitalizeFirstLetter(parts[1]) \o <<" ","w","e","e","k","e","n","d">> >>
        ELSE << <<"T","h","i","s"," ","w","e","e","k","e","n","d">>, <<"N","e","x","t"," ","w","e","e","k","e","n","d">> >>

patternPeriod(input) ==
    LET trimmed == toLowerCase(trim(input))
    IN  startsWith(trimmed, <<"s","t">>) \/ startsWith(trimmed, <<"e","n","d">>) \/ startsWith(trimmed, <<"s","t","a","r","t"," ","o">>)

PeriodPhrases ==
    Map(LAMBDA p : capitalizeFirstLetter(p[1][1]) \o <<" ","o","f"," ">> \o p[1][2] \o <<" ">> \o p[2],
        Product(Product(<< <<"s","t","a","r","t">>, <<"e","n","d">> >>, << <<"t","h","i","s">>, <<"n","e","x","t">> >>),
                << <<"w","e","e","k">>, <<"m","o","n","t","h">>, <<"q","u","a","r","t","e","r">>, <<"y","e","a","r">> >>))

generatePeriod(input) ==
    LET trimmed == toLowerCase(trim(input))
    IN  SelectSeq(PeriodPhrases, LAMBDA phrase : startsWith(toLowerCase(phrase), trimmed))

holidaysDisabled(st) == st.holidaysInstance = NullInstance \/ st.currentLocale = ""

patternHoliday(st, input) ==
    IF holidaysDisabled(st) THEN FALSE
    ELSE LET lower == toLowerCase(trim(input))
         IN  IF Len(lower) < 2 THEN FALSE
             ELSE arraySome(LAMBDA e : includes(e.key, lower), st.holidayCache)

generateHoliday_noSlice(st, input) ==
    IF holidaysDisabled(st) THEN <<>>
    ELSE LET lower == toLowerCase(trim(input))
         IN  Map(LAMBDA e : e.name,
                 SelectSeq(st.holidayCache,
                           LAMBDA e : includes(toLowerCase(e.name), lower)))

generateHoliday(st, input) ==
    IF holidaysDisabled(st) THEN <<>>
    ELSE LET lower == toLowerCase(trim(input))
         IN  sliceTo(Map(LAMBDA e : e.name,
                         SelectSeq(st.holidayCache,
                                   LAMBDA e : includes(toLowerCase(e.name), lower))), 5)


(***************************************************************************)
(* getPatternSuggestions: the pass over the generators.                    *)
(***************************************************************************)
suggestionGenerators ==
    << [id |-> 1,  priority |-> 100], [id |-> 2,  priority |-> 90],
       [id |-> 3,  priority |-> 85],  [id |-> 4,  priority |-> 82],
       [id |-> 5,  priority |-> 80],  [id |-> 6,  priority |-> 70],
       [id |-> 7,  priority |-> 65],  [id |-> 8,  priority |-> 60],
       [id |-> 9,  priority |-> 55],  [id |-> 10, priority |-> 50],
       [id |-> 11, priority |-> 40] >>

RuleIds == {suggestionGenerators[i].id : i \in 1..Len(suggestionGenerators)}

\* a fault injected into one rule: its matcher throws, or its generator
\* throws when it is invoked; rule 0 is no fault
NoFault == [rule |-> 0, phase |-> "none"]

Faults == {NoFault} \cup [rule : RuleIds, phase : {"pattern", "generate"}]

\* does generator id accept the trimmed lowercased input
patternAccepts(id, st, lower) ==
    CASE id = 1  -> matchNumber(lower) # Null
      [] id = 2  -> matchQualifier(lower) # Null
      [] id = 3  -> patternWeekday(lower)
      [] id = 4  -> patternWeekdayQualifier(lower)
      [] id = 5  -> patternMonth(lower)
      [] id = 6  -> patternRelativeDay(lower)
      [] id = 7  -> patternDayTime(lower)
      [] id = 8  -> patternTimeOfDay(lower)
      [] id = 9  -> patternWeekend(lower)
      [] id = 10 -> patternPeriod(lower)
      [] id = 11 -> patternHoliday(st, lower)

\* generator id applied to the trimmed input (and the match on the lowercased input)
generate(id, st, trimmedInput, lower) ==
    CASE id = 1  -> generateNumber(trimmedInput, matchNumber(lower))
      [] id = 2  -> generateQualifier(trimmedInput, matchQualifier(lower))
      [] id = 3  -> generateWeekday(trimmedInput)
      [] id = 4  -> generateWeekdayQualifier(trimmedInput)
      [] id = 5  -> generateMonth(trimmedInput)
      [] id = 6  -> generateRelativeDay(trimmedInput)
      [] id = 7  -> generateDayTime(trimmedInput)
      [] id = 8  -> generateTimeOfDay(trimmedInput)
      [] id = 9  -> generateWeekend(trimmedInput)
      [] id = 10 -> generatePeriod(trimmedInput)
      [] id = 11 -> generateHoliday(st, trimmedInput)

\* the body of the try block up to generatedItems: what the rule generated,
\* or that its matcher or generator threw
evalGenerator(g, st, input, fault) ==
    LET lower == toLowerCase(trim(input))
    IN  IF fault.rule = g.id /\ fault.phase = "pattern"
        THEN [threw |-> TRUE, items |-> <<>>]
        ELSE IF ~patternAccepts(g.id, st, lower)
        THEN [threw |-> FALSE, items |-> <<>>]
        ELSE IF fault.rule = g.id /\ fault.phase = "generate"
        THEN [threw |-> TRUE, items |-> <<>>]
        ELSE [threw |-> FALSE, items |-> generate(g.id, st, trim(input), lower)]

RECURSIVE insertByPriority_ascending(_, _)
insertByPriority_ascending(sorted, g) ==
    IF sorted = <<>> THEN <<g>>
    ELSE IF g.priority < Head(sorted).priority THEN <<g>> \o sorted
    ELSE <<Head(sorted)>> \o insertByPriority_ascending(Tail(sorted), g)

\* [...generators].sort((a, b) => (b.priority || 0) - (a.priority || 0)), a stable sort
RECURSIVE insertByPriority(_, _)
insertByPriority(sorted, g) ==
    IF sorted = <<>> THEN <<g>>
    ELSE IF g.priority > Head(sorted).priority THEN <<g>> \o sorted
    ELSE <<Head(sorted)>> \o insertByPriority(Tail(sorted), g)

RECURSIVE sortGenerators(_)
sortGenerators(table) ==
    IF table = <<>> THEN <<>>
    ELSE insertByPriority(sortGenerators(SubSeq(table, 1, Len(table) - 1)), table[Len(table)])

setAdd_noDedup(set, s) == Append(set, s)

\* Set.prototype.add on a Set kept in insertion order
setAdd(set, s) == IF \E i \in 1..Len(set) : set[i] = s THEN set ELSE Append(set, s)

\* generatedItems.forEach(s => suggestions.add(s))
RECURSIVE addItems(_, _)
addItems(set, items) ==
    IF items = <<>> THEN set ELSE addItems(setAdd(set, Head(items)), Tail(items))

RECURSIVE runGenerators_noCatch(_, _, _, _, _, _)
runGenerators_noCatch(sorted, i, st, input, fault, suggestions) ==
    IF i > Len(sorted) THEN [result |-> suggestions, threw |-> FALSE]
    ELSE LET g == sorted[i]
             e == evalGenerator(g, st, input, fault)
         IN  IF e.threw
             THEN [result |-> suggestions, threw |-> TRUE]
             ELSE IF g.priority = 40 /\ holidaysDisabled(st)
             THEN runGenerators_noCatch(sorted, i + 1, st, input, fault, suggestions)
             ELSE runGenerators_noCatch(sorted, i + 1, st, input, fault,
                                        addItems(suggestions, e.items))

\* the for loop over sortedGenerators, from position i with the Set so far
RECURSIVE runGenerators(_, _, _, _, _, _)
runGenerators(sorted, i, st, input, fault, suggestions) ==
    IF i > Len(sorted) THEN [result |-> suggestions, threw |-> FALSE]
    ELSE LET g == sorted[i]
             e == evalGenerator(g, st, input, fault)
         IN  IF e.threw
             THEN runGenerators(sorted, i + 1, st, input, fault, suggestions)
             ELSE IF g.priority = 40 /\ holidaysDisabled(st)
             THEN runGenerators(sorted, i + 1, st, input, fault, suggestions)
             ELSE runGenerators(sorted, i + 1, st, input, fault, addItems(suggestions, e.items))

\* getPatternSuggestions(input) over a generator table
getPatternSuggestions(st, table, input, fault) ==
    IF trim(input) = <<>> THEN [result |-> <<>>, threw |-> FALSE]
    ELSE runGenerators(sortGenerators(table), 1, st, input, fault, <<>>)

(***************************************************************************)
(* Inputs of the model.                                                    *)
(***************************************************************************)
NowValues ==
    {y * 1000 + d : y \in currentYear..(currentYear + MaxNowYearOffset), d \in {1, 200, 359, 365}}

ChronoAnswers == {Null, Some(JanuaryFirst(currentYear) + 41)}

ParseTexts ==
    { <<>>, <<" ">>, <<" "," ">>, <<"2","0","2","7">>, <<" ","2","0","2","7"," ">>, <<"0","0","5","0">>, <<"2","0","2","7","0">>, <<"3">>, <<"i","n"," ","3">>, <<"3"," ","w","e","e","k","s">>,
      <<"t","o","m","o","r","r","o","w">>, <<"X","m","a","s">>, <<"c","h","r","i","s","t","m","a","s">>, <<" ","C","h","r","i","s","t","m","a","s"," ","D","a","y"," ">>, <<"b","o","x","i","n","g">>, <<"d","a","y">>,
      <<"m","e","r","r","y"," ","c","h","r","i","s","t","m","a","s"," ","d","a","y">>, <<"j","u","n","e","t","e","e","n","t","h">>, <<"g","o","o","d">> }

SuggestionInputs ==
    { <<>>, <<" "," ">>, <<"i","n"," ","3">>, <<"3">>, <<"2","0","2","5">>, <<"I","n","3">>, <<"n","e","x","t">>, <<"N","e","x","t"," ","m">>, <<"m","o">>, <<"M","o","n"," ","n">>,
      <<"j","a","n">>, <<"t","o">>, <<"t","o","m","o","r","r","o","w"," ","m","o">>, <<"m","i">>, <<"w","e","e","k">>, <<"t","h","i","s"," ","w">>, <<"s","t">>, <<"e","n","d"," ","o","f"," ","n">>,
      <<"c","h","r","i","s","t">>, <<" ","C","h","r","i","s","t"," ">>, <<"x","m">>, <<"d","a","y">>, <<"g","o","o","d">>, <<"j","u","n","e">>, <<"t">>,
      <<"m","e","r","r","y"," ","c","h","r","i","s","t","m","a","s">> }


(***************************************************************************)
(* The state machine: one action per public operation.  Execution is       *)
(* single-threaded and synchronous: a call runs to completion, call        *)
(* records its inputs and what it returned, and the caller takes the       *)
(* result (Return) before it makes the next call.                          *)
(***************************************************************************)
Cur == State(holidaysInstance, holidayCache, currentLocale)

NoCall ==
    [op |-> "none", locale |-> "", fail |-> "ok", failUS |-> "ok", threw |-> FALSE,
     text |-> <<>>, now |-> 0, chronoAnswer |-> Null, chronoArg |-> Null,
     holidayChecked |-> FALSE, result |-> Null, suggestions |-> <<>>, fault |-> NoFault]

Init ==
    /\ holidaysInstance = NullInstance
    /\ holidayCache = <<>>
    /\ currentLocale = DefaultLocale
    /\ call = NoCall

InitHolidays ==
    /\ call.op = "none"
    /\ \E locale \in Locales, f \in FailModes, fUS \in FailModes :
        LET r == initHolidays(Cur, locale, f, fUS)
        IN  /\ holidaysInstance' = r.st.holidaysInstance
            /\ holidayCache' = r.st.holidayCache
            /\ currentLocale' = r.st.currentLocale
            /\ call' = [NoCall EXCEPT !.op = "initHolidays", !.locale = locale,
                                      !.fail = f, !.failUS = fUS, !.threw = r.threw]

SetLocale ==
    /\ call.op = "none"
    /\ \E locale \in Locales, f \in FailModes, fUS \in FailModes :
        LET r == setLocale(Cur, locale, f, fUS)
        IN  /\ holidaysInstance' = r.st.holidaysInstance
            /\ holidayCache' = r.st.holidayCache
            /\ currentLocale' = r.st.currentLocale
            /\ call' = [NoCall EXCEPT !.op = "setLocale", !.locale = locale,
                                      !.fail = f, !.failUS = fUS, !.threw = r.threw]

ParseDate ==
    /\ call.op = "none"
    /\ \E text \in ParseTexts, now \in NowValues, answer \in ChronoAnswers :
        LET r == parseDate(Cur, text, now, answer)
        IN  /\ call' = [NoCall EXCEPT !.op = "parseDate", !.text = text, !.now = now,
                                      !.chronoAnswer = answer, !.chronoArg = r.chronoArg,
                                      !.holidayChecked = r.holidayChecked,
                                      !.result = r.result]
            /\ UNCHANGED <<holidaysInstance, holidayCache, currentLocale>>

GetPatternSuggestions ==
    /\ call.op = "none"
    /\ \E input \in SuggestionInputs, fault \in Faults :
        LET r == getPatternSuggestions(Cur, suggestionGenerators, input, fault)
        IN  /\ call' = [NoCall EXCEPT !.op = "getPatternSuggestions", !.text = input,
                                      !.fault = fault, !.suggestions = r.result,
                                      !.threw = r.threw]
            /\ UNCHANGED <<holidaysInstance, holidayCache, currentLocale>>

\* the caller has taken the result of the call
Return ==
    /\ call.op # "none"
    /\ call' = NoCall
    /\ UNCHANGED <<holidaysInstance, holidayCache, currentLocale>>

Next == InitHolidays \/ SetLocale \/ ParseDate \/ GetPatternSuggestions \/ Return

Spec == Init /\ [][Next]_vars


(***************************************************************************)
(* Reference builds of the cache, used to state the properties: the cache  *)
(* built from scratch from the first k of the two years of a locale, with  *)
(* the aliases applied once both years are in.                             *)
(***************************************************************************)
YearsBuild(locale, k) ==
    LET y1 == IF k >= 1 THEN addAll(<<>>, getHolidays(locale, currentYear)) ELSE <<>>
        y2 == IF k >= 2 THEN addAll(y1, getHolidays(locale, currentYear + 1)) ELSE y1
    IN  IF k >= 2 THEN addHolidayAliases(y2) ELSE y2

FullRebuild(locale) == YearsBuild(locale, 2)

\* the last call was a load of the holiday source (initHolidays, or a
\* setLocale that reached it)
IsLoadCall == call.op = "initHolidays" \/ call.op = "setLocale"

(***************************************************************************)
(* C1, as stated: whenever getCurrentLocale() is a non-empty locale L the  *)
(* cache is exactly the full rebuild from L's records for currentYear and  *)
(* currentYear + 1.  Violated: the cache is empty at process start while   *)
(* the locale reads 'US', and a load that fails while fetching leaves a    *)
(* partial cache.                                                          *)
(***************************************************************************)
C1_AlwaysFullRebuild ==
    getCurrentLocale(Cur) # "" => holidayCache = FullRebuild(getCurrentLocale(Cur))

(***************************************************************************)
(* C1, amended: the cache only ever holds what was built from scratch from *)
(* the records of the locale getCurrentLocale() reports: it is the build   *)
(* of that locale over none, the first, or both of the years currentYear,  *)
(* currentYear + 1 (the full rebuild with aliases in the last case); it is *)
(* empty when the locale is empty; and it is the full rebuild after every  *)
(* call whose load of the reported locale succeeded.                       *)
(***************************************************************************)
C1_CacheReflectsReportedLocale ==
    /\ getCurrentLocale(Cur) = "" => holidayCache = <<>> /\ holidaysInstance = NullInstance
    /\ getCurrentLocale(Cur) # "" =>
          \E k \in 0..2 : holidayCache = YearsBuild(getCurrentLocale(Cur), k)
    /\ holidaysInstance # NullInstance => holidaysInstance = getCurrentLocale(Cur)
    /\ (call.op = "initHolidays" /\ call.locale # "" /\ call.fail = "ok") =>
          /\ getCurrentLocale(Cur) = call.locale
          /\ holidayCache = FullRebuild(call.locale)
    /\ (call.op = "initHolidays" /\ call.locale \notin {"", DefaultLocale}
          /\ call.fail # "ok" /\ call.failUS = "ok") =>
          /\ getCurrentLocale(Cur) = DefaultLocale
          /\ holidayCache = FullRebuild(DefaultLocale)

\* a degraded state: the reported locale is GB and the cache holds GB's first year only
C1_Witness ==
    /\ IsLoadCall
    /\ call.locale = "GB"
    /\ getCurrentLocale(Cur) = "GB"
    /\ holidayCache = YearsBuild("GB", 1)
    /\ holidayCache # FullRebuild("GB")

(***************************************************************************)
(* C2, as stated: initHolidays and setLocale never propagate a failure of  *)
(* the holiday source; when the load of a requested locale other than 'US' *)
(* fails, the cache is rebuilt from 'US' and getCurrentLocale() is 'US'.   *)
(* Violated: the fallback load of 'US' runs inside the catch block, so its *)
(* own failure reaches the caller.                                         *)
(***************************************************************************)
C2_FailureNeverPropagates ==
    IsLoadCall =>
        /\ ~call.threw
        /\ (call.op = "initHolidays" /\ call.locale \notin {"", DefaultLocale}
              /\ call.fail # "ok") =>
              /\ getCurrentLocale(Cur) = DefaultLocale
              /\ holidayCache = FullRebuild(DefaultLocale)


(***************************************************************************)
(* C3, as stated: for empty or whitespace-only input, in every state of    *)
(* the holiday cache, getPatternSuggestions returns the empty list and     *)
(* parseDate returns null.  Violated by parseDate on whitespace-only text  *)
(* with an active non-empty cache: every key includes the empty cleaned    *)
(* text, so the first cache entry is resolved.                             *)
(***************************************************************************)
C3_BlankInputYieldsNothing ==
    /\ (call.op = "getPatternSuggestions" /\ trim(call.text) = <<>>) =>
          call.suggestions = <<>> /\ ~call.threw
    /\ (call.op = "parseDate" /\ trim(call.text) = <<>>) => call.result = Null

(***************************************************************************)
(* C4: the list returned by getPatternSuggestions contains no string more  *)
(* than once, whatever the input, the cache and the rules that generated   *)
(* the strings.                                                            *)
(***************************************************************************)
C4_NoDuplicateSuggestions ==
    call.op = "getPatternSuggestions" =>
        \A i, j \in 1..Len(call.suggestions) :
            i # j => call.suggestions[i] # call.suggestions[j]

\* the holiday rule generated one name twice (two keys share it) and it is returned once
C4_Witness ==
    /\ call.op = "getPatternSuggestions"
    /\ call.fault = NoFault
    /\ call.text = <<"c","h","r","i","s","t">>
    /\ Len(generateHoliday(Cur, trim(call.text))) >= 2
    /\ call.suggestions = << <<"C","h","r","i","s","t","m","a","s"," ","D","a","y">> >>

(***************************************************************************)
(* What each rule contributes to a pass, taken rule by rule: the strings   *)
(* it generated, nothing if it threw, did not match or was skipped.        *)
(***************************************************************************)
Contribution(g, st, input, fault) ==
    LET e == evalGenerator(g, st, input, fault)
    IN  IF e.threw \/ (g.priority = 40 /\ holidaysDisabled(st)) THEN <<>> ELSE e.items

Range(s) == {s[i] : i \in 1..Len(s)}

\* the contributions of the rules of a table, in table order
RECURSIVE Contributions(_, _, _, _)
Contributions(table, st, input, fault) ==
    IF table = <<>> THEN <<>>
    ELSE <<Contribution(Head(table), st, input, fault)>>
             \o Contributions(Tail(table), st, input, fault)

FirstIndex(s, x) == CHOOSE i \in 1..Len(s) : s[i] = x /\ \A j \in 1..(i - 1) : s[j] # x

(***************************************************************************)
(* C5: the output of getPatternSuggestions is in first-producer insertion  *)
(* order over the rules taken in descending priority: it holds exactly the *)
(* strings some rule contributed; for s before t in the output the highest *)
(* priority of a rule producing s is >= that of t; and two strings with    *)
(* the same highest-priority producer keep that rule's generation order.   *)
(***************************************************************************)
C5_FirstProducerOrder ==
    (call.op = "getPatternSuggestions" /\ trim(call.text) # <<>>) =>
        LET out == call.suggestions
            table == suggestionGenerators
            \* what each rule of the table contributed to this pass
            contrib == Contributions(table, Cur, call.text, call.fault)
            \* the producer of str with the highest priority
            topOf(str) == CHOOSE i \in 1..Len(table) :
                              /\ str \in Range(contrib[i])
                              /\ \A j \in 1..Len(table) :
                                    str \in Range(contrib[j]) =>
                                        table[j].priority <= table[i].priority
            top(k) == topOf(out[k])
        IN  /\ Range(out) = UNION {Range(contrib[i]) : i \in 1..Len(table)}
            /\ \A i, j \in 1..Len(out) :
                  i < j =>
                    /\ table[top(i)].priority >= table[top(j)].priority
                    /\ top(i) = top(j) =>
                          FirstIndex(contrib[top(i)], out[i]) < FirstIndex(contrib[top(i)], out[j])

\* two rules contribute ('this w': the qualifier rule two strings, then the weekend rule)
C5_Witness ==
    /\ call.op = "getPatternSuggestions"
    /\ call.fault = NoFault
    /\ call.text = <<"t","h","i","s"," ","w">>
    /\ call.suggestions = << <<"T","h","i","s"," ","w","e","e","k">>, <<"T","h","i","s"," ","W","e","d","n","e","s","d","a","y">>, <<"T","h","i","s"," ","w","e","e","k","e","n","d">> >>

\* the generator table without rule id
RemoveRule(table, id) == SelectSeq(table, LAMBDA g : g.id # id)

\* the injected fault made its rule throw in this pass
FaultThrew(st, input, fault) ==
    /\ fault.rule # 0
    /\ trim(input) # <<>>
    /\ \/ fault.phase = "pattern"
       \/ patternAccepts(fault.rule, st, toLowerCase(trim(input)))

(***************************************************************************)
(* C6: when one rule's matcher or generator throws during a pass, the call *)
(* returns normally and its result is the result of the same pass over the *)
(* table without that rule.                                                *)
(***************************************************************************)
C6_FaultyRuleContributesNothing ==
    (call.op = "getPatternSuggestions" /\ FaultThrew(Cur, call.text, call.fault)) =>
        /\ ~call.threw
        /\ call.suggestions =
              getPatternSuggestions(Cur, RemoveRule(suggestionGenerators, call.fault.rule),
                                    call.text, NoFault).result

\* 'mo' with the US cache: the time-of-day generator throws, the weekday rule
\* before it and the holiday rule after it still contribute
C6_Witness ==
    /\ call.op = "getPatternSuggestions"
    /\ call.text = <<"m","o">>
    /\ call.fault = [rule |-> 8, phase |-> "generate"]
    /\ FaultThrew(Cur, call.text, call.fault)
    /\ ~call.threw
    /\ call.suggestions = << <<"M","o","n","d","a","y">>, <<"M","e","m","o","r","i","a","l"," ","D","a","y">> >>


\* January 1 of a calendar year, as a Date
JanuaryFirstOfYear(year) == year * 1000 + 1

(***************************************************************************)
(* C7, as stated: parseDate resolves in a fixed order.  Trimmed text of    *)
(* exactly 4 digits gives January 1 of that year, without the holiday      *)
(* cache or the external parser; otherwise the holiday lookup decides when *)
(* it yields a date; only when it yields null is the enhanced text handed  *)
(* to the external parser, whose answer is returned unchanged.  Violated   *)
(* for the years 0000..0099, which the Date constructor reads as 19xx.     *)
(***************************************************************************)
C7_FixedResolutionOrder ==
    call.op = "parseDate" =>
        LET trimmed == trim(call.text)
            lookup == checkForHoliday(Cur, call.text, call.now)
        IN  IF IsFourDigits(trimmed)
            THEN /\ call.result = Some(JanuaryFirstOfYear(Number(trimmed)))
                 /\ ~call.holidayChecked
                 /\ call.chronoArg = Null
            ELSE IF lookup # Null
            THEN call.result = lookup /\ call.chronoArg = Null
            ELSE /\ call.chronoArg = Some(enhanceText(call.text))
                 /\ call.result = chronoParseDate(enhanceText(call.text), call.chronoAnswer)

(***************************************************************************)
(* C8: setLocale(locale) changes nothing (cache, holiday source instance,  *)
(* current locale) when locale is the current locale, and otherwise leaves *)
(* the state initHolidays(locale) leaves from the same state, with the     *)
(* holiday source behaving the same way.                                   *)
(***************************************************************************)
C8_SetLocaleNoOpOrInit ==
    [][call'.op = "setLocale" =>
          IF call'.locale = currentLocale
          THEN /\ UNCHANGED <<holidaysInstance, holidayCache, currentLocale>>
               /\ ~call'.threw
          ELSE LET r == initHolidays(Cur, call'.locale, call'.fail, call'.failUS)
               IN  /\ Cur' = r.st
                   /\ call'.threw = r.threw]_vars

\* setLocale('GB') left a full GB cache although the source would have
\* failed: the locale was already GB and nothing was loaded
C8_Witness ==
    /\ call.op = "setLocale"
    /\ call.locale = "GB"
    /\ call.fail = "fetch1"
    /\ ~call.threw
    /\ currentLocale = "GB"
    /\ holidaysInstance = "GB"
    /\ holidayCache = FullRebuild("GB")

(***************************************************************************)
(* C9, as stated: when initHolidays('US') fails at any point of the load,  *)
(* the cache and the current locale are left exactly as before the call.   *)
(* Violated when a year's fetch fails: the cache was already cleared.      *)
(***************************************************************************)
C9_DefaultLocaleFailureLeavesState ==
    [][(call'.op = "initHolidays" /\ call'.locale = DefaultLocale /\ call'.fail # "ok") =>
          /\ holidayCache' = holidayCache
          /\ currentLocale' = currentLocale]_vars

(***************************************************************************)
(* C9, amended: initHolidays('US') whose load fails returns normally; if   *)
(* constructing the holiday source failed, the cache, the source instance  *)
(* and the current locale are exactly as before the call; if fetching a    *)
(* year failed, the source instance and the current locale are 'US' and    *)
(* the cache has been cleared and holds only what the years fetched before *)
(* the failure added (nothing, or the first year, without aliases).        *)
(***************************************************************************)
C9_DefaultLocaleFailure ==
    [][(call'.op = "initHolidays" /\ call'.locale = DefaultLocale /\ call'.fail # "ok") =>
          /\ ~call'.threw
          /\ IF call'.fail = "ctor"
             THEN UNCHANGED <<holidaysInstance, holidayCache, currentLocale>>
             ELSE /\ holidaysInstance' = DefaultLocale
                  /\ currentLocale' = DefaultLocale
                  /\ holidayCache' = YearsBuild(DefaultLocale, FailIndex(call'.fail) - 1)]_vars

\* initHolidays('US') failed fetching the second year: the first year's entries are cached
C9_Witness ==
    /\ call.op = "initHolidays"
    /\ call.locale = DefaultLocale
    /\ call.fail = "fetch2"
    /\ ~call.threw
    /\ currentLocale = DefaultLocale
    /\ holidayCache = YearsBuild(DefaultLocale, 1)
    /\ holidayCache # <<>>

SetMin(S) == CHOOSE x \in S : \A y \in S : x <= y

SetMax(S) == CHOOSE x \in S : \A y \in S : y <= x

(***************************************************************************)
(* C10: on an active cache the lookup matches the entry under the exact    *)
(* normalized key when there is one, else the first entry in iteration     *)
(* order whose key contains the text or is contained in it; it resolves    *)
(* the entry to the earliest stored date >= now when there is one, else to *)
(* the latest stored date; it yields null only when no key matches.        *)
(***************************************************************************)
C10_LookupResolution ==
    (/\ call.op = "parseDate"
     /\ ~IsFourDigits(trim(call.text))
     /\ call.text # <<>>
     /\ ~holidaysDisabled(Cur)) =>
        LET text == trim(toLowerCase(call.text))
            exact == {i \in 1..Len(holidayCache) : holidayCache[i].key = text}
            partial == {i \in 1..Len(holidayCache) :
                           \/ includes(text, holidayCache[i].key)
                           \/ includes(holidayCache[i].key, text)}
            candidates == IF exact # {} THEN exact ELSE partial
        IN  IF candidates = {}
            THEN call.chronoArg # Null
            ELSE LET stored == Range(holidayCache[SetMin(candidates)].dates)
                     upcoming == {d \in stored : d >= call.now}
                 IN  /\ stored # {}
                     /\ call.chronoArg = Null
                     /\ call.result = Some(IF upcoming # {} THEN SetMin(upcoming)
                                           ELSE SetMax(stored))

\* 'day' has no exact key; the first key containing it is 'good friday',
\* whose occurrences are all past: the latest one is returned
C10_Witness ==
    /\ call.op = "parseDate"
    /\ call.text = <<"d","a","y">>
    /\ holidayCache = FullRebuild("GB")
    /\ ~holidaysDisabled(Cur)
    /\ call.now > NewDate(<<currentYear + 1, 100>>)
    /\ call.result = Some(NewDate(<<currentYear + 1, 100>>))


\* the holiday rule of the generator table
HolidayRule == CHOOSE g \in Range(suggestionGenerators) : g.priority = 40

\* what the holiday rule contributed to the last getPatternSuggestions pass
HolidayContribution == Contribution(HolidayRule, Cur, call.text, call.fault)

\* a pass in which the holiday rule did not throw
IsHolidayPass ==
    /\ call.op = "getPatternSuggestions"
    /\ trim(call.text) # <<>>
    /\ call.fault.rule # HolidayRule.id

(***************************************************************************)
(* C11, as stated: the holiday rule contributes exactly when the cache is  *)
(* active and the trimmed lowercased input has at least 2 characters and   *)
(* is a substring of, or contains, some cached key.  Violated for an input *)
(* that contains a key without being part of one: the matcher only tests   *)
(* whether a key includes the input.                                       *)
(***************************************************************************)
C11_HolidayRuleEitherDirection ==
    IsHolidayPass =>
        LET lower == toLowerCase(trim(call.text))
        IN  (HolidayContribution # <<>>) <=>
               /\ ~holidaysDisabled(Cur)
               /\ Len(lower) >= 2
               /\ \E i \in 1..Len(holidayCache) :
                     \/ includes(holidayCache[i].key, lower)
                     \/ includes(lower, holidayCache[i].key)

(***************************************************************************)
(* C11, amended: the holiday rule contributes exactly when the cache is    *)
(* active and the trimmed lowercased input has at least 2 characters and   *)
(* is a substring of some cached key; it then contributes at least one and *)
(* at most 5 names of cached entries, all of them returned by the call;    *)
(* it contributes nothing whenever no holiday cache is active.             *)
(***************************************************************************)
C11_HolidayRuleContribution ==
    IsHolidayPass =>
        LET lower == toLowerCase(trim(call.text))
            names == {holidayCache[i].name : i \in 1..Len(holidayCache)}
        IN  /\ (HolidayContribution # <<>>) <=>
                  /\ ~holidaysDisabled(Cur)
                  /\ Len(lower) >= 2
                  /\ \E i \in 1..Len(holidayCache) : includes(holidayCache[i].key, lower)
            /\ HolidayContribution # <<>> =>
                  /\ Len(HolidayContribution) >= 1
                  /\ Len(HolidayContribution) <= 5
                  /\ Range(HolidayContribution) \subseteq names
                  /\ Range(HolidayContribution) \subseteq Range(call.suggestions)
            /\ holidaysDisabled(Cur) => HolidayContribution = <<>>

\* 'day' with the GB cache: six entries carry a matching name, five are contributed
C11_Witness ==
    /\ IsHolidayPass
    /\ call.fault = NoFault
    /\ call.text = <<"d","a","y">>
    /\ holidayCache = FullRebuild("GB")
    /\ Len(generateHoliday_noSlice(Cur, call.text)) > 5
    /\ Len(HolidayContribution) = 5
    /\ call.suggestions = << <<"G","o","o","d"," ","F","r","i","d","a","y">>, <<"C","h","r","i","s","t","m","a","s"," ","D","a","y">>, <<"B","o","x","i","n","g"," ","D","a","y">> >>


(***************************************************************************)
(* C12, as stated: after any cache rebuild every entry's occurrence list   *)
(* is a set: no date occurs in it more than once.  Violated by a record    *)
(* whose name is one word longer than 3 characters: the full-name key and  *)
(* the first-word key are the same key, and the date is pushed to it a     *)
(* second time.                                                            *)
(***************************************************************************)
C12_OccurrencesAreSets ==
    IsLoadCall =>
        \A e \in 1..Len(holidayCache) :
            \A i, j \in 1..Len(holidayCache[e].dates) :
                i # j => holidayCache[e].dates[i] # holidayCache[e].dates[j]

====
